---- MODULE Spec2Model ----
(***************************************************************************)
(* A model of server.py: the /proxy dispatcher, its two stacked caches     *)
(* (cache.cached on the view, cache.memoize on the handlers), the origin  *)
(* fetch and the playlist rewriter.                                        *)
(*                                                                         *)
(* Text is a sequence of tokens: "https:", "//", a host name, "/", a name, *)
(* an extension such as ".m3u8", "?", a query.  Python's f-strings and +   *)
(* are \o; urlparse, urljoin and urlunparse work on the tokens the way     *)
(* urllib.parse works on the characters.                                   *)
(*                                                                         *)
(* The requests are those the rate limiter of line 140 lets through.       *)
(*                                                                         *)
(* Spec is the dispatcher with two request threads, SpecFair adds that the *)
(* threads keep running, SpecSeq serves the requests one after the other   *)
(* with headers of their own, SpecRewrite is the rewriter alone and        *)
(* SpecHistory is route_history with its writers and its reader.           *)
(***************************************************************************)
EXTENDS Integers, Sequences, FiniteSets, TLC

(***************************************************************************)
(* Configuration (server.py 22-31, 51-54)                                  *)
(***************************************************************************)
PROXY_BASE_URL == <<"https:", "//", "m3u8.adgstudios.co.za">>

ALLOWED_DOMAINS == {<<"www088.anzeat.pro">>, <<"www083.anzeat.pro">>}

CACHE_DEFAULT_TIMEOUT == 300

MEMOIZE_TIMEOUT == 300

(***************************************************************************)
(* urllib.parse on token text                                              *)
(***************************************************************************)
\* Index of the first token of s that is in D, or Len(s) + 1.
RECURSIVE FirstIn(_, _, _)
FirstIn(s, D, i) ==
    IF i > Len(s) THEN Len(s) + 1
    ELSE IF s[i] \in D THEN i
    ELSE FirstIn(s, D, i + 1)

\* urlparse(url): the scheme, then after "//" the netloc up to the first "/"
\* or "?", then the path up to the first "?", then the query.
SplitQuery(scheme, netloc, rest, q) ==
    [scheme |-> scheme,
     netloc |-> netloc,
     path   |-> SubSeq(rest, 1, q - 1),
     query  |-> SubSeq(rest, q + 1, Len(rest))]

SplitPath(scheme, netloc, rest) ==
    SplitQuery(scheme, netloc, rest, FirstIn(rest, {"?"}, 1))

SplitNetlocAt(scheme, rest, n) ==
    SplitPath(scheme, SubSeq(rest, 1, n), SubSeq(rest, n + 1, Len(rest)))

SplitNetloc(scheme, rest) ==
    IF Len(rest) > 0 /\ rest[1] = "//"
    THEN SplitNetlocAt(scheme, Tail(rest), FirstIn(Tail(rest), {"/", "?"}, 1) - 1)
    ELSE SplitPath(scheme, <<>>, rest)

urlparse(url) ==
    IF Len(url) > 0 /\ url[1] \in {"https:", "http:"}
    THEN SplitNetloc(url[1], Tail(url))
    ELSE SplitNetloc("", url)

\* urlunparse: a netloc is followed by a path that starts with "/".
urlunparse(p) ==
    (IF p.scheme # "" THEN <<p.scheme>> ELSE <<>>)
    \o (IF p.netloc # <<>> THEN <<"//">> \o p.netloc ELSE <<>>)
    \o (IF p.netloc # <<>> /\ p.path # <<>> /\ p.path[1] # "/"
        THEN <<"/">> ELSE <<>>)
    \o p.path
    \o (IF p.query # <<>> THEN <<"?">> \o p.query ELSE <<>>)

\* path.split('/'): the token groups between the "/" tokens.
RECURSIVE SplitSlash(_)
SplitSlash(s) ==
    LET i == FirstIn(s, {"/"}, 1)
    IN  IF i > Len(s) THEN <<s>>
        ELSE <<SubSeq(s, 1, i - 1)>> \o SplitSlash(SubSeq(s, i + 1, Len(s)))

\* '/'.join(parts)
RECURSIVE JoinSlash(_)
JoinSlash(parts) ==
    IF Len(parts) = 0 THEN <<>>
    ELSE IF Len(parts) = 1 THEN parts[1]
    ELSE parts[1] \o <<"/">> \o JoinSlash(Tail(parts))

\* segments[1:-1] = filter(None, segments[1:-1])
RECURSIVE DropEmpty(_)
DropEmpty(parts) ==
    IF Len(parts) = 0 THEN <<>>
    ELSE IF parts[1] = <<>> THEN DropEmpty(Tail(parts))
    ELSE <<parts[1]>> \o DropEmpty(Tail(parts))

\* The dot-segment loop of urljoin: ".." pops, "." is skipped.
RECURSIVE ResolveDots(_, _)
ResolveDots(segs, acc) ==
    IF Len(segs) = 0 THEN acc
    ELSE IF segs[1] = <<"..">>
         THEN ResolveDots(Tail(segs),
                          IF Len(acc) > 0 THEN SubSeq(acc, 1, Len(acc) - 1) ELSE acc)
    ELSE IF segs[1] = <<".">> THEN ResolveDots(Tail(segs), acc)
    ELSE ResolveDots(Tail(segs), Append(acc, segs[1]))

\* urljoin: base_parts is the base path without its last segment.
BaseParts(parts) ==
    IF parts[Len(parts)] # <<>> THEN SubSeq(parts, 1, Len(parts) - 1) ELSE parts

\* urljoin: segments[1:-1] = filter(None, segments[1:-1])
FilterInner(segments) ==
    IF Len(segments) < 3 THEN segments
    ELSE <<segments[1]>>
         \o DropEmpty(SubSeq(segments, 2, Len(segments) - 1))
         \o <<segments[Len(segments)]>>

\* urljoin: a last segment "." or ".." leaves a trailing slash.
TrailingSlash(resolved_path, last) ==
    IF last \in {<<".">>, <<"..">>} THEN Append(resolved_path, <<>>)
    ELSE resolved_path

OrSlash(path) == IF path = <<>> THEN <<"/">> ELSE path

ResolvedPath(segments) ==
    OrSlash(JoinSlash(TrailingSlash(ResolveDots(segments, <<>>),
                                    segments[Len(segments)])))

MergedPath(bpath, path) ==
    IF path[1] = "/" THEN ResolvedPath(SplitSlash(path))
    ELSE ResolvedPath(FilterInner(BaseParts(SplitSlash(bpath)) \o SplitSlash(path)))

JoinParsed(b, u, scheme, url) ==
    IF scheme # b.scheme THEN url
    ELSE IF u.netloc # <<>>
    THEN urlunparse([scheme |-> scheme, netloc |-> u.netloc,
                     path |-> u.path, query |-> u.query])
    ELSE IF u.path = <<>>
    THEN urlunparse([scheme |-> scheme, netloc |-> b.netloc, path |-> b.path,
                     query |-> IF u.query = <<>> THEN b.query ELSE u.query])
    ELSE urlunparse([scheme |-> scheme, netloc |-> b.netloc,
                     path |-> MergedPath(b.path, u.path), query |-> u.query])

JoinSchemes(b, u, url) ==
    JoinParsed(b, u, IF u.scheme = "" THEN b.scheme ELSE u.scheme, url)

\* urljoin(base, url), for the http and https schemes.
urljoin(base, url) ==
    IF base = <<>> THEN url
    ELSE IF url = <<>> THEN base
    ELSE JoinSchemes(urlparse(base), urlparse(url), url)

(***************************************************************************)
(* Helper functions (server.py 93-120)                                     *)
(***************************************************************************)
is_absolute_url(url) == urlparse(url).netloc # <<>>

construct_proxy_url(requested_path) ==
    PROXY_BASE_URL \o <<"/", "proxy", "/">> \o requested_path

get_target_url(requested_path) == <<"https:", "//">> \o requested_path

\* str.lstrip('/')
RECURSIVE lstrip_slash(_)
lstrip_slash(s) ==
    IF Len(s) > 0 /\ s[1] = "/" THEN lstrip_slash(Tail(s)) ELSE s

\* The route /proxy/<path:requested_path> (line 139): the path converter
\* hands the view what follows "/proxy/" in the URL's path, and nothing of
\* the URL's query string.  <<>> when the URL is not a /proxy/ URL.
RoutedPath(url) ==
    LET p == urlparse(url).path
    IN  IF Len(p) > 3 /\ SubSeq(p, 1, 3) = <<"/", "proxy", "/">>
        THEN SubSeq(p, 4, Len(p)) ELSE <<>>

(***************************************************************************)
(* The playlist (m3u8.M3U8) and its rewriting (server.py 189-224)          *)
(*                                                                         *)
(* Playlist text is modelled by what the parser reads out of it: the       *)
(* stream-info entries (uri, bandwidth), the segment entries (uri,         *)
(* duration), the target duration and the end-list marker.                 *)
(***************************************************************************)
\* m3u8.M3U8(text, base_uri): is_variant is set by the parser when it reads
\* a stream-info declaration, whatever else the text holds.
M3U8(text) ==
    [is_variant |-> Len(text.variants) > 0,
     playlists  |-> text.variants,
     segments   |-> text.segments,
     target_duration |-> text.target_duration,
     is_endlist |-> text.is_endlist]

\* playlist.dumps()
dumps(playlist) ==
    [variants |-> playlist.playlists,
     segments |-> playlist.segments,
     target_duration |-> playlist.target_duration,
     is_endlist |-> playlist.is_endlist]

\* A classifier that also asks for no segment entries.
is_master_playlist_NoSegments(playlist) ==
    playlist.is_variant /\ playlist.segments = <<>>

is_master_playlist(playlist) == playlist.is_variant

\* Lines 195-198 / 211-214: a relative URI is joined to target_url.
OriginalUri(target_url, uri) ==
    IF ~is_absolute_url(uri) THEN urljoin(target_url, uri) ELSE uri

\* Lines 200-202 / 216-218.
RelativePath(parsed_original) == parsed_original.netloc \o parsed_original.path

ProxiedUri(original_uri) ==
    construct_proxy_url(lstrip_slash(RelativePath(urlparse(original_uri))))

\* A loop that writes the rewritten URIs back in the opposite order.
RewriteItems_Reversed(items, target_url) ==
    [i \in 1..Len(items) |->
        [items[i] EXCEPT !.uri =
            ProxiedUri(OriginalUri(target_url, items[Len(items) + 1 - i].uri))]]

\* One loop (194-206 or 210-222): every item's uri is replaced, in order.
RewriteItems(items, target_url) ==
    [i \in 1..Len(items) |->
        [items[i] EXCEPT !.uri = ProxiedUri(OriginalUri(target_url, items[i].uri))]]

\* The log_route calls of one loop, in order (lines 206, 222, 76-86).
RouteEntries(items, target_url) ==
    [i \in 1..Len(items) |->
        [original_url |-> OriginalUri(target_url, items[i].uri),
         proxied_url  |-> ProxiedUri(OriginalUri(target_url, items[i].uri))]]

\* Lines 191-192, 207-208: the branch taken, as it is logged.
Identified(playlist) ==
    IF is_master_playlist(playlist) THEN "master" ELSE "media"

\* Lines 191-224: run one of the two loops, serialise.
RewriteParsed(playlist, target_url) ==
    IF Identified(playlist) = "master"
    THEN dumps([playlist EXCEPT
                  !.playlists = RewriteItems(playlist.playlists, target_url)])
    ELSE dumps([playlist EXCEPT
                  !.segments = RewriteItems(playlist.segments, target_url)])

\* Lines 189-224: parse, rewrite, serialise.
RewrittenPlaylist(text, target_url) == RewriteParsed(M3U8(text), target_url)

LoggedParsed(playlist, target_url) ==
    IF Identified(playlist) = "master"
    THEN RouteEntries(playlist.playlists, target_url)
    ELSE RouteEntries(playlist.segments, target_url)

\* The records handle_m3u8 appends to route_history, in order.
LoggedRoutes(text, target_url) == LoggedParsed(M3U8(text), target_url)

(***************************************************************************)
(* Bounds of the model                                                     *)
(***************************************************************************)
\* Requests received in one run.
MaxRequests == 2

\* Time passes in steps of TimeStep seconds, up to MaxTime.
TimeStep == 200

MaxTime == 450

\* References (stream-info and segment entries) in one playlist text.
MaxRefs == 2

\* The request threads: two are enough for every pair of requests to overlap.
Threads == {1, 2}

(***************************************************************************)
(* Requests and origin answers                                             *)
(***************************************************************************)
\* The requested_path values the clients send: a playlist and a segment of
\* an allowed host, a playlist of a host outside the list, and a path that
\* starts with "?" (/proxy/%3Fep.m3u8), which has no host.
RequestPaths ==
    {<<"www088.anzeat.pro", "/", "ep", ".m3u8">>,
     <<"www088.anzeat.pro", "/", "seg", ".ts">>,
     <<"evil.example", "/", "ep", ".m3u8">>,
     <<"?", "ep", ".m3u8">>}

\* The playlist text the origin serves in the dispatcher's specification.
OriginText ==
    [variants |-> <<>>,
     segments |-> <<[uri |-> <<"seg", ".ts">>, duration |-> 10]>>,
     target_duration |-> 10,
     is_endlist |-> FALSE]

EmptyText ==
    [variants |-> <<>>, segments |-> <<>>, target_duration |-> 0,
     is_endlist |-> FALSE]

\* What requests.get can do: raise ("unavailable": a timeout or a connection
\* failure, both requests.RequestException), or return
\* a status, a Content-Type header ("" when absent) and a body, which for a
\* playlist is well-formed or not.
OriginAnswers ==
    {[outcome |-> o, status |-> 0, content_type |-> "", malformed |-> FALSE] :
        o \in {"unavailable"}}
    \cup {[outcome |-> "status", status |-> st, content_type |-> "", malformed |-> FALSE] :
        st \in {304, 404}}
    \cup {[outcome |-> "status", status |-> 200, content_type |-> ct, malformed |-> m] :
        ct \in {"", "text/plain", "video/mp2t"}, m \in BOOLEAN}

(***************************************************************************)
(* Request headers (server.py 261-267, 186)                                *)
(***************************************************************************)
\* request.headers as the client sent them: (name, value) pairs.
PlainHeaders == << <<"Host", "m3u8.adgstudios.co.za">> >>

RangeHeaders ==
    << <<"Host", "m3u8.adgstudios.co.za">>, <<"Range", "bytes=900-">> >>

ClientHeaders == {PlainHeaders, RangeHeaders}

\* str.lower() on a header name.
lower(name) ==
    IF name = "Host" THEN "host"
    ELSE IF name = "Range" THEN "range"
    ELSE name

IsNotHost(header) == lower(header[1]) # "host"

\* Lines 261-265: every header but Host goes into the dict given to
\* requests.get.
ForwardedByOther(headers) == SelectSeq(headers, IsNotHost)

\* Line 186: requests.get(target_url, timeout=TIMEOUT) is given no headers.
ForwardedByM3u8(headers) == <<>>

\* The headers a handler gives to requests.get.
Forwarded(handler, headers) ==
    IF handler = "handle_other" THEN ForwardedByOther(headers)
    ELSE ForwardedByM3u8(headers)

HasRange(headers) == \E i \in 1..Len(headers) : lower(headers[i][1]) = "range"

\* An origin answers a Range it cannot satisfy with 416; without a Range
\* header in the request it never does.
RangeAnswers(headers) ==
    IF HasRange(headers)
    THEN {[outcome |-> "status", status |-> 416, content_type |-> "",
           malformed |-> FALSE]}
    ELSE {}

\* What requests.get can do when it is given these headers.
AnswersTo(headers) == OriginAnswers \cup RangeAnswers(headers)

AllAnswers == UNION {AnswersTo(ForwardedByOther(h)) : h \in ClientHeaders}

(***************************************************************************)
(* Responses                                                               *)
(***************************************************************************)
\* A flask Response.  fetched_at is the time of the origin fetch the body
\* came from (-1 for a body made locally): the origin's content changes with
\* time, so it also tells the bodies of two fetches apart.  streaming says
\* that the body is the generator of handle_other.  fetched_with is <<>> for
\* a response made without an origin fetch, else <<the headers given to
\* requests.get in the fetch the response came from>>.
Resp(status, content_type, kind, playlist, at, streaming) ==
    [status |-> status, content_type |-> content_type, kind |-> kind,
     playlist |-> playlist, fetched_at |-> at, streaming |-> streaming,
     fetched_with |-> <<>>]

FetchedWith(resp, sent) == [resp EXCEPT !.fetched_with = <<sent>>]

ErrorResponse(status, kind) ==
    Resp(status, "text/html", kind, EmptyText, -1, FALSE)

NoResponse == Resp(0, "", "none", EmptyText, -1, FALSE)

(***************************************************************************)
(* The cache: Cache(app) with CACHE_TYPE SimpleCache (server.py 51-57).    *)
(* One store holds the entries of cache.cached (key: the request path) and *)
(* of cache.memoize (key: the function and its arguments).  An entry is    *)
(* <<[expires, value]>>, no entry is <<>>.  The version token that         *)
(* flask-caching adds to a memoize key is taken as fixed.                  *)
(***************************************************************************)
ViewKey(requested_path) == <<"view", <<"/", "proxy", "/">> \o requested_path>>

MemoKey(fname, target_url, requested_path) == <<fname, target_url, requested_path>>

\* SimpleCache.set pickles the value; a Response around a generator cannot
\* be pickled, set raises and flask-caching logs the exception and goes on.
\* A store that keeps the object itself would take any value.
Picklable_Always(value) == TRUE

Picklable(value) == ~value.streaming

\* A get that never looks at expires.
cache_get_NoExpiry(c, key, t) ==
    IF c[key] # <<>> THEN <<c[key][1].value>> ELSE <<>>

\* SimpleCache.get: the value while expires > time(), else nothing.
cache_get(c, key, t) ==
    IF c[key] # <<>> /\ (c[key][1].expires = 0 \/ c[key][1].expires > t)
    THEN <<c[key][1].value>>
    ELSE <<>>

\* A set that writes the new expires beside the value already stored.
cache_set_Torn(c, key, value, timeout, t) ==
    IF Picklable(value)
    THEN [c EXCEPT ![key] =
            <<[expires |-> t + timeout,
               value |-> IF c[key] # <<>> THEN c[key][1].value ELSE value]>>]
    ELSE c

\* SimpleCache.set: one assignment of (expires, pickled value) to the key.
cache_set(c, key, value, timeout, t) ==
    IF Picklable(value)
    THEN [c EXCEPT ![key] = <<[expires |-> t + timeout, value |-> value]>>]
    ELSE c

(***************************************************************************)
(* The dispatcher's pure parts (server.py 147-167)                         *)
(***************************************************************************)
\* path.lower().endswith('.m3u8')
IsPlaylistPath(path) ==
    Len(path) > 0 /\ path[Len(path)] \in {".m3u8", ".M3U8"}

\* A validation without the allow-list check of lines 156-158.
Validate_NoAllowList(target_url) ==
    LET parsed_target == urlparse(target_url)
    IN  IF parsed_target.scheme = "" \/ parsed_target.netloc = <<>> THEN "invalid"
        ELSE "ok"

\* Lines 150-158: "invalid", "disallowed" or "ok".
Validate(target_url) ==
    LET parsed_target == urlparse(target_url)
    IN  IF parsed_target.scheme = "" \/ parsed_target.netloc = <<>> THEN "invalid"
        ELSE IF parsed_target.netloc \notin ALLOWED_DOMAINS THEN "disallowed"
        ELSE "ok"

\* Lines 164-167: the handler the target goes to.
HandlerOf(requested_path) ==
    IF IsPlaylistPath(urlparse(get_target_url(requested_path)).path)
    THEN "handle_m3u8" ELSE "handle_other"

\* os.path.basename(requested_path)
basename(requested_path) ==
    LET parts == SplitSlash(requested_path) IN parts[Len(parts)]

CacheKeys ==
    {ViewKey(p) : p \in RequestPaths}
    \cup {MemoKey(HandlerOf(p), get_target_url(p), p) : p \in RequestPaths}

FileNames == {basename(p) : p \in RequestPaths}

(***************************************************************************)
(* State                                                                   *)
(***************************************************************************)
VARIABLES
    now,            \* time(), in seconds
    cache,          \* the SimpleCache: key -> <<>> or <<[expires, value]>>
    route_history,  \* the list of line 74
    archive,        \* SAVE_DIRECTORY: file name -> <<>> or <<the playlist written>>
    nreq,           \* requests received so far
    pc,             \* per request thread: where it is
    req,            \* per thread: requested_path
    hdr,            \* per thread: request.headers
    rv,             \* per thread: the value the view or handler returned
    response,       \* per thread: the response sent to the client
    cause,          \* per thread: how its response came about
    origin_status,  \* per thread: the status its own origin fetch got, 0 if none
    fetches,        \* per thread: origin fetches this request made
    last_put,       \* per key: <<>> or <<[at, value, ttl]>>, the last set not pruned since
    rw_pc,          \* the rewriter alone: "input" or "output"
    rw_text,        \* the playlist text fetched
    rw_target,      \* target_url
    rw_final,       \* response.url, the URL after redirects
    rw_kind,        \* "Identified as Master Playlist." / "... Media Playlist."
    rw_out,         \* the text handle_m3u8 serves
    lg_pc,          \* the loops alone, per thread: "idle", "loop" or "done"
    lg_items,       \* per thread: the items its loop goes through
    lg_target,      \* per thread: target_url
    lg_pos,         \* per thread: items its loop has done
    lg_where,       \* per thread: where in route_history its records went
    hs_key,         \* the X-API-KEY header of the last /history request
    hs_resp         \* the response to the last /history request

dispatcher_vars ==
    <<now, cache, archive, nreq, pc, req, hdr, rv, response, cause,
      origin_status, fetches, last_put>>

rw_vars == <<rw_pc, rw_text, rw_target, rw_final, rw_kind, rw_out>>

lg_vars == <<lg_pc, lg_items, lg_target, lg_pos, lg_where, hs_key, hs_resp>>

vars == <<dispatcher_vars, route_history, rw_vars, lg_vars>>

InitDispatcher ==
    /\ now = 0
    /\ cache = [k \in CacheKeys |-> <<>>]
    /\ archive = [f \in FileNames |-> <<>>]
    /\ nreq = 0
    /\ pc = [t \in Threads |-> "idle"]
    /\ req = [t \in Threads |-> <<>>]
    /\ hdr = [t \in Threads |-> PlainHeaders]
    /\ rv = [t \in Threads |-> NoResponse]
    /\ response = [t \in Threads |-> NoResponse]
    /\ cause = [t \in Threads |-> "none"]
    /\ origin_status = [t \in Threads |-> 0]
    /\ fetches = [t \in Threads |-> 0]
    /\ last_put = [k \in CacheKeys |-> <<>>]

InitRewriterIdle ==
    /\ rw_pc = "input"
    /\ rw_text = EmptyText
    /\ rw_target = <<>>
    /\ rw_final = <<>>
    /\ rw_kind = "none"
    /\ rw_out = EmptyText

NoHistoryResponse == [status |-> 0, body |-> <<>>]

InitLoopsIdle ==
    /\ lg_pc = [t \in Threads |-> "idle"]
    /\ lg_items = [t \in Threads |-> <<>>]
    /\ lg_target = [t \in Threads |-> <<>>]
    /\ lg_pos = [t \in Threads |-> 0]
    /\ lg_where = [t \in Threads |-> <<>>]
    /\ hs_key = ""
    /\ hs_resp = NoHistoryResponse

Init ==
    /\ InitDispatcher
    /\ route_history = <<>>
    /\ InitRewriterIdle
    /\ InitLoopsIdle

(***************************************************************************)
(* The request: app.run(threaded=True) gives each request a thread.  The   *)
(* steps of a thread are the places where it reads or writes what the      *)
(* threads share.                                                          *)
(***************************************************************************)
\* What cache_set does to the record of the sets made.
PutNoted(key, value, timeout) ==
    last_put' = IF Picklable(value)
                THEN [last_put EXCEPT ![key] =
                         <<[at |-> now, value |-> value, ttl |-> timeout]>>]
                ELSE last_put

\* A view without the lookup of cache.cached: every request runs proxy.
Request_Refetch(t, p, h) ==
    /\ pc[t] \in {"idle", "done"}
    /\ \A u \in Threads : u < t => pc[u] \notin {"idle", "done"}
    /\ nreq < MaxRequests
    /\ nreq' = nreq + 1
    /\ req' = [req EXCEPT ![t] = p]
    /\ hdr' = [hdr EXCEPT ![t] = h]
    /\ rv' = [rv EXCEPT ![t] = NoResponse]
    /\ origin_status' = [origin_status EXCEPT ![t] = 0]
    /\ fetches' = [fetches EXCEPT ![t] = 0]
    /\ response' = [response EXCEPT ![t] = NoResponse]
    /\ cause' = [cause EXCEPT ![t] = "none"]
    /\ pc' = [pc EXCEPT ![t] = "proxy"]
    /\ UNCHANGED <<now, cache, archive, last_put, route_history, rw_vars, lg_vars>>

\* cache.cached (line 141) wraps the view: the lookup under the request
\* path comes first; on a hit the stored response is returned.  Of the free
\* threads the lowest takes the request (they are interchangeable).
Request(t, p, h) ==
    /\ pc[t] \in {"idle", "done"}
    /\ \A u \in Threads : u < t => pc[u] \notin {"idle", "done"}
    /\ nreq < MaxRequests
    /\ nreq' = nreq + 1
    /\ req' = [req EXCEPT ![t] = p]
    /\ hdr' = [hdr EXCEPT ![t] = h]
    /\ rv' = [rv EXCEPT ![t] = NoResponse]
    /\ origin_status' = [origin_status EXCEPT ![t] = 0]
    /\ fetches' = [fetches EXCEPT ![t] = 0]
    /\ LET found == cache_get(cache, ViewKey(p), now)
       IN  IF found # <<>>
           THEN /\ response' = [response EXCEPT ![t] = found[1]]
                /\ cause' = [cause EXCEPT ![t] = "view_hit"]
                /\ pc' = [pc EXCEPT ![t] = "done"]
           ELSE /\ response' = [response EXCEPT ![t] = NoResponse]
                /\ cause' = [cause EXCEPT ![t] = "none"]
                /\ pc' = [pc EXCEPT ![t] = "proxy"]
    /\ UNCHANGED <<now, cache, archive, last_put, route_history, rw_vars, lg_vars>>

\* proxy (lines 147-167) up to the memoized handler's lookup.
Proxy(t) ==
    /\ pc[t] = "proxy"
    /\ LET target_url == get_target_url(req[t])
           verdict == Validate(target_url)
           found == cache_get(cache,
                              MemoKey(HandlerOf(req[t]), target_url, req[t]), now)
       IN  IF verdict = "invalid"
           THEN /\ rv' = [rv EXCEPT ![t] = ErrorResponse(400, "invalid")]
                /\ cause' = [cause EXCEPT ![t] = "invalid"]
                /\ pc' = [pc EXCEPT ![t] = "view_set"]
           ELSE IF verdict = "disallowed"
           THEN /\ rv' = [rv EXCEPT ![t] = ErrorResponse(403, "disallowed")]
                /\ cause' = [cause EXCEPT ![t] = "disallowed"]
                /\ pc' = [pc EXCEPT ![t] = "view_set"]
           ELSE IF found # <<>>
           THEN /\ rv' = [rv EXCEPT ![t] = found[1]]
                /\ cause' = [cause EXCEPT ![t] = "memo_hit"]
                /\ pc' = [pc EXCEPT ![t] = "view_set"]
           ELSE /\ pc' = [pc EXCEPT ![t] = "fetch"]
                /\ UNCHANGED <<rv, cause>>
    /\ UNCHANGED <<now, cache, archive, nreq, req, hdr, response,
                   origin_status, fetches, last_put, route_history, rw_vars, lg_vars>>

\* A try that calls the handler again when it raises.
Raised_Retry(t, status, why) ==
    /\ rv' = [rv EXCEPT ![t] = ErrorResponse(status, why)]
    /\ cause' = [cause EXCEPT ![t] = why]
    /\ pc' = pc

\* What the try of lines 163-173 makes of an exception raised in a handler:
\* requests.RequestException gives 502, anything else 500.  The memoize
\* wrapper stores nothing when the handler raises.
Raised(t, status, why) ==
    /\ rv' = [rv EXCEPT ![t] =
                FetchedWith(ErrorResponse(status, why),
                            Forwarded(HandlerOf(req[t]), hdr[t]))]
    /\ cause' = [cause EXCEPT ![t] = why]
    /\ pc' = [pc EXCEPT ![t] = "view_set"]

\* response.raise_for_status(): HTTPError for a 4xx or 5xx status.
RaisesForStatus(status) == status >= 400 /\ status < 600

\* handle_m3u8 (lines 185-249) on a memoize miss: fetch, parse, rewrite,
\* log, save, respond.
HandleM3u8(t, a, disk_ok) ==
    /\ pc[t] = "fetch"
    /\ HandlerOf(req[t]) = "handle_m3u8"
    /\ a \in AnswersTo(ForwardedByM3u8(hdr[t]))
    /\ fetches' = [fetches EXCEPT ![t] = @ + 1]
    /\ origin_status' = [origin_status EXCEPT ![t] = a.status]
    /\ LET target_url == get_target_url(req[t])
           text == IF a.status = 200 THEN OriginText ELSE EmptyText
           filename == basename(req[t])
       IN  IF a.outcome # "status"
           THEN /\ Raised(t, 502, a.outcome)
                /\ UNCHANGED <<route_history, archive>>
           ELSE IF RaisesForStatus(a.status)
           THEN /\ Raised(t, 502, "http_error")
                /\ UNCHANGED <<route_history, archive>>
           ELSE IF a.malformed
           THEN /\ Raised(t, 500, "parse")
                /\ UNCHANGED <<route_history, archive>>
           ELSE /\ route_history' = route_history \o LoggedRoutes(text, target_url)
                /\ pc' = [pc EXCEPT ![t] = "memo_set"]
                /\ IF disk_ok
                   THEN /\ archive' = [archive EXCEPT ![filename] =
                                        <<RewrittenPlaylist(text, target_url)>>]
                        /\ rv' = [rv EXCEPT ![t] =
                                    FetchedWith(
                                      Resp(200, "application/vnd.apple.mpegurl", "playlist",
                                           RewrittenPlaylist(text, target_url),
                                           now, FALSE),
                                      ForwardedByM3u8(hdr[t]))]
                        /\ cause' = [cause EXCEPT ![t] = "ok"]
                   ELSE /\ rv' = [rv EXCEPT ![t] =
                                    FetchedWith(ErrorResponse(500, "save"),
                                                ForwardedByM3u8(hdr[t]))]
                        /\ cause' = [cause EXCEPT ![t] = "save"]
                        /\ UNCHANGED archive
    /\ UNCHANGED <<now, cache, nreq, req, hdr, response, last_put, rw_vars, lg_vars>>

\* Line 281: the origin's Content-Type, or the default when it sends none.
ContentTypeOf(a) ==
    IF a.content_type # "" THEN a.content_type ELSE "application/octet-stream"

\* handle_other (lines 260-283) on a memoize miss: fetch, log, respond with
\* a generator over the origin's chunks.
HandleOther(t, a) ==
    /\ pc[t] = "fetch"
    /\ HandlerOf(req[t]) = "handle_other"
    /\ a \in AnswersTo(ForwardedByOther(hdr[t]))
    /\ fetches' = [fetches EXCEPT ![t] = @ + 1]
    /\ origin_status' = [origin_status EXCEPT ![t] = a.status]
    /\ LET target_url == get_target_url(req[t])
       IN  IF a.outcome # "status"
           THEN /\ Raised(t, 502, a.outcome)
                /\ UNCHANGED route_history
           ELSE IF RaisesForStatus(a.status)
           THEN /\ Raised(t, 502, "http_error")
                /\ UNCHANGED route_history
           ELSE /\ route_history' = Append(route_history,
                        [original_url |-> target_url,
                         proxied_url  |-> construct_proxy_url(req[t])])
                /\ rv' = [rv EXCEPT ![t] =
                            FetchedWith(
                              Resp(200, ContentTypeOf(a), "stream", EmptyText,
                                   now, TRUE),
                              ForwardedByOther(hdr[t]))]
                /\ cause' = [cause EXCEPT ![t] = "ok"]
                /\ pc' = [pc EXCEPT ![t] = "memo_set"]
    /\ UNCHANGED <<now, cache, archive, nreq, req, hdr, response, last_put, rw_vars, lg_vars>>

\* cache.memoize (lines 179, 255) stores what the handler returned.
MemoSet(t) ==
    /\ pc[t] = "memo_set"
    /\ LET key == MemoKey(HandlerOf(req[t]), get_target_url(req[t]), req[t])
       IN  /\ cache' = cache_set(cache, key, rv[t], MEMOIZE_TIMEOUT, now)
           /\ PutNoted(key, rv[t], MEMOIZE_TIMEOUT)
    /\ pc' = [pc EXCEPT ![t] = "view_set"]
    /\ UNCHANGED <<now, archive, nreq, req, hdr, rv, response, cause,
                   origin_status, fetches, route_history, rw_vars, lg_vars>>

\* cache.cached (line 141) stores what the view returned, whatever its
\* status, and the response goes to the client.
ViewSet(t) ==
    /\ pc[t] = "view_set"
    /\ LET key == ViewKey(req[t])
       IN  /\ cache' = cache_set(cache, key, rv[t], CACHE_DEFAULT_TIMEOUT, now)
           /\ PutNoted(key, rv[t], CACHE_DEFAULT_TIMEOUT)
    /\ response' = [response EXCEPT ![t] = rv[t]]
    /\ pc' = [pc EXCEPT ![t] = "done"]
    /\ UNCHANGED <<now, archive, nreq, req, hdr, rv, cause,
                   origin_status, fetches, route_history, rw_vars, lg_vars>>

\* Time passes.
Tick ==
    /\ now + TimeStep <= MaxTime
    /\ now' = now + TimeStep
    /\ UNCHANGED <<cache, archive, nreq, pc, req, hdr, rv, response, cause,
                   origin_status, fetches, last_put, route_history, rw_vars, lg_vars>>

\* SimpleCache._prune, run by the set of a request for some other path when
\* the store is over its threshold: it drops the expired entries and every
\* third one, here k.
Prune(k) ==
    /\ nreq < MaxRequests
    /\ nreq' = nreq + 1
    /\ cache[k] # <<>>
    /\ cache' = [cache EXCEPT ![k] = <<>>]
    /\ last_put' = [last_put EXCEPT ![k] = <<>>]
    /\ UNCHANGED <<now, archive, pc, req, hdr, rv, response, cause,
                   origin_status, fetches, route_history, rw_vars, lg_vars>>

Next ==
    \/ \E t \in Threads, p \in RequestPaths : Request(t, p, PlainHeaders)
    \/ \E t \in Threads : Proxy(t)
    \/ \E t \in Threads, a \in OriginAnswers, disk_ok \in BOOLEAN : HandleM3u8(t, a, disk_ok)
    \/ \E t \in Threads, a \in OriginAnswers : HandleOther(t, a)
    \/ \E t \in Threads : MemoSet(t)
    \/ \E t \in Threads : ViewSet(t)
    \/ Tick
    \/ \E k \in CacheKeys : Prune(k)

Spec == Init /\ [][Next]_vars

\* requests.get(..., timeout=TIMEOUT) in lines 186 and 267: a fetch that
\* nothing else ends raises requests.Timeout.
TimesOut(t) ==
    \E a \in OriginAnswers :
        /\ a.outcome = "unavailable"
        /\ (HandleM3u8(t, a, TRUE) \/ HandleOther(t, a))

\* Every request thread keeps running (threaded=True: one thread per
\* request, scheduled by the operating system): it does not stop before
\* proxy, in the fetch (which ends at the latest by timing out), or before
\* one of the two cache sets.
SpecFair ==
    Spec /\ \A t \in Threads :
                /\ WF_vars(Proxy(t))
                /\ WF_vars(TimesOut(t))
                /\ WF_vars(MemoSet(t))
                /\ WF_vars(ViewSet(t))

(***************************************************************************)
(* The requests one after the other: each is served before the next        *)
(* arrives and before time moves on, clients send headers of their own,    *)
(* and the store may drop any entry between two requests.                  *)
(***************************************************************************)
Quiet == \A t \in Threads : pc[t] \in {"idle", "done"}

TickBetween == Quiet /\ Tick

\* SimpleCache._prune as in Prune, between two requests.
Evict(k) ==
    /\ Quiet
    /\ cache[k] # <<>>
    /\ cache' = [cache EXCEPT ![k] = <<>>]
    /\ last_put' = [last_put EXCEPT ![k] = <<>>]
    /\ UNCHANGED <<now, archive, nreq, pc, req, hdr, rv, response, cause,
                   origin_status, fetches, route_history, rw_vars, lg_vars>>

NextSeq ==
    \/ \E p \in RequestPaths, h \in ClientHeaders : Request(1, p, h)
    \/ Proxy(1)
    \/ \E a \in AllAnswers, disk_ok \in BOOLEAN : HandleM3u8(1, a, disk_ok)
    \/ \E a \in AllAnswers : HandleOther(1, a)
    \/ MemoSet(1)
    \/ ViewSet(1)
    \/ TickBetween
    \/ \E k \in CacheKeys : Evict(k)

SpecSeq == Init /\ [][NextSeq]_vars

(***************************************************************************)
(* Properties of the dispatcher and the cache, under Spec                  *)
(***************************************************************************)
\* The resolved host of a request: the netloc of 'https://' + requested_path.
HostOf(requested_path) == urlparse(get_target_url(requested_path)).netloc

Finished(t) == pc[t] = "done"

\* The request was answered from a cache, not by running its own handler.
FromCache(t) == cause[t] \in {"view_hit", "memo_hit"}

\* C1 (as claimed): every request whose resolved host is not in
\* ALLOWED_DOMAINS is answered 403 and makes no origin fetch.
C1_NotAllowedIs403 ==
    \A t \in Threads :
        (Finished(t) /\ HostOf(req[t]) \notin ALLOWED_DOMAINS) =>
            (response[t].status = 403 /\ fetches[t] = 0)

\* C1 (amended): every request whose resolved host is not in ALLOWED_DOMAINS
\* makes no origin fetch and is answered 403 if that host is not empty, 400
\* if it is empty, whatever the cache holds.
C1_NotAllowedIs403Or400 ==
    \A t \in Threads :
        (req[t] # <<>> /\ HostOf(req[t]) \notin ALLOWED_DOMAINS) =>
            /\ fetches[t] = 0
            /\ pc[t] \notin {"fetch", "memo_set"}
            /\ Finished(t) =>
                  response[t].status = IF HostOf(req[t]) = <<>> THEN 400 ELSE 403

\* C1 witness: a request for a host outside the list has been answered 403
\* out of the cache an earlier request filled.
C1_Witness ==
    \E t \in Threads :
        /\ Finished(t)
        /\ HostOf(req[t]) # <<>>
        /\ HostOf(req[t]) \notin ALLOWED_DOMAINS
        /\ cause[t] = "view_hit"
        /\ response[t].status = 403

\* C3: after put(key, v, ttl) at t0, with no later put or eviction of the
\* key, a get strictly before t0 + ttl returns v and a get strictly after
\* t0 + ttl returns nothing.
C3_Freshness ==
    \A k \in CacheKeys :
        last_put[k] # <<>> =>
            /\ now < last_put[k][1].at + last_put[k][1].ttl =>
                  cache_get(cache, k, now) = <<last_put[k][1].value>>
            /\ now > last_put[k][1].at + last_put[k][1].ttl =>
                  cache_get(cache, k, now) = <<>>

\* C3 witness: an entry put more than ttl ago is still stored (nothing
\* removed it) and time has passed its expiry.
C3_Witness ==
    \E k \in CacheKeys :
        /\ last_put[k] # <<>>
        /\ cache[k] # <<>>
        /\ now > last_put[k][1].at + last_put[k][1].ttl

\* C4 (as claimed): only a successful origin fetch creates a cache entry; an
\* error response (400, 403, 502, 500) is never stored.
C4_ErrorsNeverStored ==
    \A k \in CacheKeys :
        cache[k] # <<>> => cache[k][1].value.status = 200

\* The status the claimed mapping gives a request that ran its own handler.
ClaimedStatus(t) ==
    IF HostOf(req[t]) = <<>> THEN 400
    ELSE IF HostOf(req[t]) \notin ALLOWED_DOMAINS THEN 403
    ELSE IF cause[t] = "unavailable" THEN 502
    ELSE IF origin_status[t] < 200 \/ origin_status[t] > 299 THEN 502
    ELSE IF cause[t] \in {"parse", "save"} THEN 500
    ELSE 200

\* C5 (as claimed): missing host gives 400; a host outside the list 403; an
\* origin timeout, connection failure or non-2xx status 502; a parse or
\* other internal failure 500; a request whose fetch and rewrite succeeded
\* gets none of them.
C5_ErrorMapping ==
    \A t \in Threads :
        (Finished(t) /\ ~FromCache(t)) => response[t].status = ClaimedStatus(t)

\* str.endswith('.ts') on the target's path.
IsTsPath(requested_path) ==
    LET path == urlparse(get_target_url(requested_path)).path
    IN  Len(path) > 0 /\ path[Len(path)] = ".ts"

\* C9 (as claimed): a target whose path ends in .ts is served as video/mp2t
\* whatever Content-Type the origin reports.
C9_TsIsTransportStream ==
    \A t \in Threads :
        (Finished(t) /\ response[t].kind = "stream" /\ IsTsPath(req[t])) =>
            response[t].content_type = "video/mp2t"

\* C10: whatever the interleaving of the request threads, a get observes
\* either nothing or, in full, what one put stored (its value with its own
\* expiry), and that put is the last one made on the key.
C10_GetSeesOneWholePut ==
    \A k \in CacheKeys :
        cache_get(cache, k, now) # <<>> =>
            /\ last_put[k] # <<>>
            /\ cache_get(cache, k, now) = <<last_put[k][1].value>>
            /\ cache[k][1].expires = last_put[k][1].at + last_put[k][1].ttl

\* C10 witness: two requests for the same playlist overlapped, both missed,
\* both fetched and both put; their bodies differ and the cache holds one.
C10_Witness ==
    /\ Finished(1) /\ Finished(2)
    /\ req[1] = req[2]
    /\ fetches[1] = 1 /\ fetches[2] = 1
    /\ response[1].status = 200 /\ response[2].status = 200
    /\ response[1].kind = "playlist"
    /\ response[1] # response[2]
    /\ cache_get(cache, ViewKey(req[1]), now) # <<>>

Arrives(t) ==
    /\ nreq' = nreq + 1
    /\ cache' = cache
    /\ pc[t] \in {"idle", "done"}
    /\ \A u \in Threads : u < t => pc[u] \notin {"idle", "done"}

\* Thread t takes, in this step, a value out of the cache or passes it on.
HitStep(t) ==
    \/ Arrives(t) /\ cause'[t] = "view_hit"
    \/ pc[t] = "proxy" /\ pc'[t] # "proxy" /\ cause'[t] = "memo_hit"
    \/ pc[t] = "view_set" /\ pc'[t] = "done" /\ cause[t] = "memo_hit"

\* The unexpired value of the last set on key k that no eviction has
\* removed, <<>> if there is none.
LiveValue(k) ==
    IF last_put[k] # <<>> /\ now < last_put[k][1].at + last_put[k][1].ttl
    THEN <<last_put[k][1].value>> ELSE <<>>

\* C14 (as claimed, its last part): a request for a manifest that comes
\* within the TTL of an earlier successful request for the same manifest
\* (whose rewritten playlist is in the archive) makes no origin fetch, so it
\* is never about to call requests.get.
C14_SecondRequestNeverFetches ==
    \A t \in Threads :
        ~ /\ pc[t] = "fetch"
          /\ HandlerOf(req[t]) = "handle_m3u8"
          /\ archive[basename(req[t])] # <<>>
          /\ now < CACHE_DEFAULT_TIMEOUT

\* C14 (amended): a request that finds an unexpired entry for its key is
\* answered with the stored value and makes no origin fetch, no rewrite, no
\* archive write and no route_history record; so a request for a manifest
\* that arrives within the TTL of a successful earlier one, whose entry no
\* eviction has removed since, is answered with that one's response and
\* fetches nothing.
C14_HitShortCircuits ==
    [][\A t \in Threads :
        /\ HitStep(t) =>
              /\ route_history' = route_history
              /\ archive' = archive
              /\ fetches'[t] = 0
              /\ origin_status'[t] = 0
        /\ (Arrives(t) /\ cache_get(cache, ViewKey(req'[t]), now) # <<>>) =>
              /\ pc'[t] = "done"
              /\ response'[t] = cache[ViewKey(req'[t])][1].value
        /\ (pc[t] = "proxy" /\ pc'[t] = "view_set" /\ cause'[t] = "memo_hit") =>
              rv'[t] = cache[MemoKey(HandlerOf(req[t]),
                                     get_target_url(req[t]), req[t])][1].value
        /\ (Arrives(t) /\ LiveValue(ViewKey(req'[t])) # <<>>) =>
              /\ pc'[t] = "done"
              /\ <<response'[t]>> = LiveValue(ViewKey(req'[t]))
              /\ fetches'[t] = 0
     ]_vars

\* C14 witness: a request for the playlist has been answered 200 out of the
\* cache without a fetch, and route_history holds only the one record of the
\* request that fetched it.
C14_Witness ==
    \E t \in Threads :
        /\ Finished(t)
        /\ cause[t] = "view_hit"
        /\ response[t].kind = "playlist"
        /\ response[t].status = 200
        /\ fetches[t] = 0
        /\ Len(route_history) = 1

\* C15 (as claimed): validation comes before the cache lookup, so a request
\* answered out of the cache is one whose target passes validation.
C15_ValidatedBeforeLookup ==
    \A t \in Threads :
        FromCache(t) => Validate(get_target_url(req[t])) = "ok"

TerminalStatuses == {200, 400, 403, 502, 500}

\* C16: a request makes at most one origin fetch; a request that has an
\* answer has one of the terminal answers and keeps it; and every request
\* received gets its answer.
C16_OneFetchOneAnswer ==
    /\ [](\A t \in Threads :
            /\ fetches[t] <= 1
            /\ Finished(t) => response[t].status \in TerminalStatuses)
    /\ [][\A t \in Threads :
            (Finished(t) /\ ~Arrives(t)) =>
                (pc'[t] = "done" /\ response'[t] = response[t]
                 /\ fetches'[t] = fetches[t])]_vars
    /\ \A t \in Threads : (pc[t] \in {"proxy", "fetch"}) ~> Finished(t)

\* C16 witness: a request whose one fetch failed has its 502.
C16_Witness ==
    \E t \in Threads :
        /\ Finished(t)
        /\ fetches[t] = 1
        /\ cause[t] = "unavailable"
        /\ response[t].status = 502

(***************************************************************************)
(* Properties of headers and of the age of what is served, under SpecSeq   *)
(***************************************************************************)
IsHostHeader(header) == header[1] \in {"Host", "host", "HOST"}

IsOtherHeader(header) == ~IsHostHeader(header)

\* The client's headers with Host removed, nothing else dropped.
WithoutHost(headers) == SelectSeq(headers, IsOtherHeader)

\* C12 (as claimed): in every origin fetch, for a manifest or a segment, the
\* headers given to the origin are the client's request headers without
\* Host.
C12_HeadersForwarded ==
    \A t \in Threads :
        fetches[t] > 0 => rv[t].fetched_with = <<WithoutHost(hdr[t])>>

ViewKeys == {ViewKey(p) : p \in RequestPaths}

\* The manifest body a request for key k would be answered with now.
Servable(k) ==
    IF cache_get(cache, k, now) # <<>> /\ cache_get(cache, k, now)[1].kind = "playlist"
    THEN cache_get(cache, k, now) ELSE <<>>

\* C18 (as claimed): whatever the requests, expiries and evictions so far,
\* a manifest body that /proxy serves at this moment was fetched from the
\* origin at most CACHE_DEFAULT_TIMEOUT seconds ago.
C18_ServedWithinOneTtl ==
    \A k \in CacheKeys :
        Servable(k) # <<>> =>
            now - Servable(k)[1].fetched_at <= CACHE_DEFAULT_TIMEOUT

\* C19 (as claimed): a response that came out of an origin fetch came out
\* of a fetch made with the headers forwarded for the request it is given
\* to, never with those of another request.
C19_OwnHeadersOnly ==
    \A t \in Threads :
        (Finished(t) /\ response[t].fetched_with # <<>>) =>
            response[t].fetched_with = <<Forwarded(HandlerOf(req[t]), hdr[t])>>

(***************************************************************************)
(* The rewriter alone: lines 189-224 applied to every playlist text of up  *)
(* to MaxRefs references.                                                  *)
(***************************************************************************)
\* The URIs a playlist may hold: relative, rooted, with "..", with a query,
\* absolute on http, absolute on https.
RefUris ==
    {<<"seg", ".ts">>,
     <<"/", "v", "/", "seg", ".ts">>,
     <<"..", "/", "seg", ".ts">>,
     <<"seg", ".ts", "?", "tok">>,
     <<"http:", "//", "cdn.example", "/", "seg", ".ts">>,
     <<"https:", "//", "www083.anzeat.pro", "/", "hi", ".m3u8">>}

Variants == [uri : RefUris, bandwidth : {800000, 1600000}]

Segments == [uri : RefUris, duration : {4, 10}]

SeqsUpTo(S, n) == UNION {[1..k -> S] : k \in 0..n}

PlaylistTexts ==
    {text \in [variants : SeqsUpTo(Variants, MaxRefs),
               segments : SeqsUpTo(Segments, MaxRefs),
               target_duration : {10},
               is_endlist : BOOLEAN] :
        Len(text.variants) + Len(text.segments) <= MaxRefs}

TargetUrls ==
    {get_target_url(<<"www088.anzeat.pro", "/", "ep", ".m3u8">>),
     get_target_url(<<"www088.anzeat.pro", "/", "hls", "/", "ep", ".m3u8">>)}

\* requests follows redirects: response.url is the target or where the
\* origin sent the request on.
FinalUrls(target_url) ==
    {target_url,
     <<"https:", "//", "www083.anzeat.pro", "/", "moved", "/", "ep", ".m3u8">>}

InitRewrite ==
    /\ InitDispatcher
    /\ route_history = <<>>
    /\ rw_pc = "input"
    /\ rw_text \in PlaylistTexts
    /\ rw_target \in TargetUrls
    /\ rw_final \in FinalUrls(rw_target)
    /\ rw_kind = "none"
    /\ rw_out = EmptyText
    /\ InitLoopsIdle

\* Lines 189-224 of handle_m3u8 on the fetched text.
Rewrite ==
    /\ rw_pc = "input"
    /\ rw_pc' = "output"
    /\ rw_kind' = Identified(M3U8(rw_text))
    /\ rw_out' = RewrittenPlaylist(rw_text, rw_target)
    /\ route_history' = route_history \o LoggedRoutes(rw_text, rw_target)
    /\ UNCHANGED <<dispatcher_vars, rw_text, rw_target, rw_final, lg_vars>>

NextRewrite == Rewrite

SpecRewrite == InitRewrite /\ [][NextRewrite]_vars

(***************************************************************************)
(* Properties of the rewriter, under SpecRewrite                           *)
(***************************************************************************)
\* What a client's request for a rewritten reference is turned into: the
\* route takes the path after /proxy/, get_target_url puts https:// before it.
Decoded(proxied_uri) == get_target_url(RoutedPath(proxied_uri))

\* resolve(u, f) of the specification: u if absolute, else u joined to f.
Resolve(u, f) == urljoin(f, u)

ProxyPrefix == PROXY_BASE_URL \o <<"/", "proxy", "/">>

\* PROXY_BASE_URL + '/proxy/' + host + path
IsProxyForm(uri) ==
    /\ Len(uri) > Len(ProxyPrefix)
    /\ SubSeq(uri, 1, Len(ProxyPrefix)) = ProxyPrefix
    /\ uri[Len(ProxyPrefix) + 1] \notin {"/", "?", "//", "https:", "http:"}

\* C2 (as claimed): decoding the rewritten form of every reference u of a
\* playlist fetched from final URL f gives exactly resolve(u, f), scheme,
\* host, path and query included.
C2_RoundTrip ==
    rw_pc = "output" =>
        /\ \A i \in 1..Len(rw_text.variants) :
              Decoded(rw_out.variants[i].uri) = Resolve(rw_text.variants[i].uri, rw_final)
        /\ \A i \in 1..Len(rw_text.segments) :
              Decoded(rw_out.segments[i].uri) = Resolve(rw_text.segments[i].uri, rw_final)

\* C6 (as claimed): every reference URI of the text served, variant or
\* segment, is in proxy form; none is left relative or pointing at the origin.
C6_AllReferencesProxied ==
    rw_pc = "output" =>
        /\ \A i \in 1..Len(rw_out.variants) : IsProxyForm(rw_out.variants[i].uri)
        /\ \A i \in 1..Len(rw_out.segments) : IsProxyForm(rw_out.segments[i].uri)

\* The loop that ran, read off the output: the variant loop put every
\* variant URI in proxy form and left the segments as they were, the segment
\* loop did the opposite.
VariantLoopRan ==
    /\ \A i \in 1..Len(rw_out.variants) : IsProxyForm(rw_out.variants[i].uri)
    /\ rw_out.segments = rw_text.segments
    /\ Len(route_history) = Len(rw_text.variants)

SegmentLoopRan ==
    /\ \A i \in 1..Len(rw_out.segments) : IsProxyForm(rw_out.segments[i].uri)
    /\ rw_out.variants = rw_text.variants
    /\ Len(route_history) = Len(rw_text.segments)

References(text, kind) == IF kind = "master" THEN text.variants ELSE text.segments

WithoutUri(items) ==
    [i \in 1..Len(items) |-> [items[i] EXCEPT !.uri = <<>>]]

C13_ResolvedAgainstFinalUrl ==
    rw_pc = "output" =>
        \A i \in 1..Len(References(rw_text, rw_kind)) :
            ~is_absolute_url(References(rw_text, rw_kind)[i].uri) =>
                route_history[i].original_url =
                    urljoin(rw_final, References(rw_text, rw_kind)[i].uri)

(***************************************************************************)
(* route_history and its users alone (server.py 74-87, 122-133, 194-222,   *)
(* 271-272, 289-295).  The dispatcher's specification takes a loop of      *)
(* handle_m3u8 in one step; here every log_route call is a step of its     *)
(* thread, so the loops of two requests interleave.                        *)
(***************************************************************************)
\* os.getenv("API_KEY", "your_default_api_key") with API_KEY unset.
API_KEY == "your_default_api_key"

\* request.headers.get('X-API-KEY'): "" stands for None, no such header.
ApiKeys == {"", "your_default_api_key", "guess"}

\* A gate that lets every request through.
require_api_key_Open(api_key) == TRUE

\* Lines 128-132: the view runs unless api_key != the configured key.
require_api_key(api_key) == ~(api_key # API_KEY)

\* A log that puts the new entry in front.
log_route_Front(history, entry) == <<entry>> \o history

\* Lines 81-86: route_history.append(entry).
log_route(history, entry) == Append(history, entry)

\* The playlists fetched in this specification: a media playlist, a master
\* playlist, and one with a stream-info entry and a segment.
LoggedTexts ==
    {[variants |-> <<>>,
      segments |-> <<[uri |-> <<"seg", ".ts">>, duration |-> 10],
                     [uri |-> <<"/", "v", "/", "seg", ".ts">>, duration |-> 4]>>,
      target_duration |-> 10, is_endlist |-> TRUE],
     [variants |-> <<[uri |-> <<"..", "/", "seg", ".ts">>, bandwidth |-> 800000],
                     [uri |-> <<"https:", "//", "www083.anzeat.pro", "/", "hi", ".m3u8">>,
                      bandwidth |-> 1600000]>>,
      segments |-> <<>>,
      target_duration |-> 10, is_endlist |-> FALSE],
     [variants |-> <<[uri |-> <<"seg", ".ts", "?", "tok">>, bandwidth |-> 800000]>>,
      segments |-> <<[uri |-> <<"seg", ".ts">>, duration |-> 10]>>,
      target_duration |-> 10, is_endlist |-> FALSE]}

\* Lines 191-194, 207-210: the list the loop goes through.
LoopItems(playlist) ==
    IF is_master_playlist(playlist) THEN playlist.playlists ELSE playlist.segments

\* handle_m3u8 has fetched and parsed a text and enters its loop.
StartLoop(t, text, target_url) ==
    /\ lg_pc[t] \in {"idle", "done"}
    /\ \A u \in Threads : u < t => lg_pc[u] = "loop"
    /\ nreq < MaxRequests
    /\ nreq' = nreq + 1
    /\ lg_items' = [lg_items EXCEPT ![t] = LoopItems(M3U8(text))]
    /\ lg_target' = [lg_target EXCEPT ![t] = target_url]
    /\ lg_pos' = [lg_pos EXCEPT ![t] = 0]
    /\ lg_where' = [lg_where EXCEPT ![t] = <<>>]
    /\ lg_pc' = [lg_pc EXCEPT ![t] =
                   IF Len(LoopItems(M3U8(text))) = 0 THEN "done" ELSE "loop"]
    /\ UNCHANGED <<now, cache, archive, pc, req, hdr, rv, response, cause,
                   origin_status, fetches, last_put, route_history, rw_vars,
                   hs_key, hs_resp>>

\* One turn of the loop (lines 195-206 or 211-222): the item's record goes
\* to route_history.
LogRoute(t) ==
    /\ lg_pc[t] = "loop"
    /\ route_history' =
          log_route(route_history,
                    RouteEntries(lg_items[t], lg_target[t])[lg_pos[t] + 1])
    /\ lg_where' = [lg_where EXCEPT ![t] = Append(@, Len(route_history) + 1)]
    /\ lg_pos' = [lg_pos EXCEPT ![t] = @ + 1]
    /\ lg_pc' = [lg_pc EXCEPT ![t] =
                   IF lg_pos[t] + 1 = Len(lg_items[t]) THEN "done" ELSE "loop"]
    /\ UNCHANGED <<dispatcher_vars, rw_vars, lg_items, lg_target, hs_key, hs_resp>>

\* handle_other logs the segment it fetched (lines 271-272).
LogSegment(p) ==
    /\ nreq < MaxRequests
    /\ nreq' = nreq + 1
    /\ route_history' =
          log_route(route_history,
                    [original_url |-> get_target_url(p),
                     proxied_url  |-> construct_proxy_url(p)])
    /\ UNCHANGED <<now, cache, archive, pc, req, hdr, rv, response, cause,
                   origin_status, fetches, last_put, rw_vars, lg_vars>>

\* GET /history (lines 289-295) behind require_api_key (122-133): abort(403)
\* or jsonify(route_history).
History(api_key) ==
    /\ hs_key' = api_key
    /\ hs_resp' = IF require_api_key(api_key)
                  THEN [status |-> 200, body |-> route_history]
                  ELSE [status |-> 403, body |-> <<>>]
    /\ UNCHANGED <<dispatcher_vars, route_history, rw_vars,
                   lg_pc, lg_items, lg_target, lg_pos, lg_where>>

NextHistory ==
    \/ \E t \in Threads, text \in LoggedTexts, target_url \in TargetUrls :
          StartLoop(t, text, target_url)
    \/ \E t \in Threads : LogRoute(t)
    \/ \E p \in {q \in RequestPaths : HandlerOf(q) = "handle_other"} : LogSegment(p)
    \/ \E api_key \in ApiKeys : History(api_key)

SpecHistory == Init /\ [][NextHistory]_vars

(***************************************************************************)
(* Properties of route_history, under SpecHistory                          *)
(***************************************************************************)
IsPrefix(s1, s2) == Len(s1) <= Len(s2) /\ SubSeq(s2, 1, Len(s1)) = s1

\* The records of thread t's loop, in the order they stand in route_history.
RecordsOf(t) == [i \in 1..Len(lg_where[t]) |-> route_history[lg_where[t][i]]]

Increasing(seq) == \A i \in 1..Len(seq) - 1 : seq[i] < seq[i + 1]

\* C17: a run of the rewriter's loop over n references puts exactly n
\* records into route_history, in the order of the references, the i-th
\* pairing the absolute origin URL of the i-th reference with the proxy URL
\* written in its place; and every step leaves the records already in
\* route_history where and as they were.
C17_RouteHistoryRecords ==
    /\ [](\A t \in Threads :
            lg_pc[t] = "done" =>
                /\ Len(lg_where[t]) = Len(lg_items[t])
                /\ Increasing(lg_where[t])
                /\ \A i \in 1..Len(lg_items[t]) :
                      /\ is_absolute_url(RecordsOf(t)[i].original_url)
                      /\ RecordsOf(t)[i].original_url =
                            OriginalUri(lg_target[t], lg_items[t][i].uri)
                      /\ RecordsOf(t)[i].proxied_url =
                            RewriteItems(lg_items[t], lg_target[t])[i].uri)
    /\ [][IsPrefix(route_history, route_history')]_vars

\* C17 witness: two loops of two references each have run at the same
\* time and their records alternate in route_history.
C17_Witness ==
    /\ lg_pc[1] = "done" /\ lg_pc[2] = "done"
    /\ lg_where[1] = <<1, 3>>
    /\ lg_where[2] = <<2, 4>>
    /\ lg_items[1] # lg_items[2]

\* C20: a /history request is answered with route_history exactly when its
\* X-API-KEY equals the configured key; with any other key, or none, it is
\* answered 403 with nothing of the history; and it changes neither
\* route_history nor the cache.
C20_HistoryGate ==
    /\ [](hs_resp.status # 0 =>
            /\ hs_key = API_KEY =>
                  (hs_resp.status = 200 /\ IsPrefix(hs_resp.body, route_history))
            /\ hs_key # API_KEY =>
                  (hs_resp.status = 403 /\ hs_resp.body = <<>>))
    /\ [][(hs_resp' # hs_resp \/ hs_key' # hs_key) =>
            /\ route_history' = route_history
            /\ cache' = cache
            /\ hs_resp'.status = 200 => hs_resp'.body = route_history]_vars

\* C20 witness: with route_history not empty, a request with another key
\* has just been refused.
C20_Witness ==
    /\ Len(route_history) > 0
    /\ hs_key = "guess"
    /\ hs_resp.status = 403

====
